---- MODULE Spec2Model ----
(***************************************************************************)
(* Model of scarr/engines/lra_wht.py: the online average-trace accumulator *)
(* (AverageTraces), the Walsh-Hadamard transform pair (WHT / iWHT), the    *)
(* LRA scorer (lra), and the LRA engine (update, calculate, run,           *)
(* run_workload).                                                          *)
(*                                                                         *)
(* Real numbers are exact rationals <<num, den>> in lowest terms with      *)
(* den > 0.  Arrays indexed by a byte value or a hypothesis are functions  *)
(* on 0..n-1; a trace is a sequence over its sample points.                *)
(***************************************************************************)
EXTENDS Integers, Sequences, FiniteSets, TLC

\* ---------------------------------------------------------------- bounds
\* num_values of AverageTraces (256 in run), scaled down
NumValues == 2
\* number of sample points of a trace (samples_range)
TraceLen == 1
\* samples are integers 0..MaxSample
MaxSample == 1
\* number of add_trace / get_data calls explored on one accumulator
MaxCalls == 4

ByteValues == 0..(NumValues - 1)
Samples == 0..MaxSample
SampleIdx == 1..TraceLen
Traces == [SampleIdx -> Samples]

VARIABLES
    \* --- AverageTraces object under test (SpecAcc)
    avtraces,       \* self.avtraces : byte value -> trace of rationals
    counters,       \* self.counters : byte value -> count
    ret,            \* value returned by the last call (None for add_trace)
    fed,            \* history: byte value -> [n, sum] of the traces passed to add_trace
    ncalls          \* number of calls made so far

accVars == <<avtraces, counters, ret, fed, ncalls>>

VARIABLES
    \* --- transform pair under test (SpecWHT)
    wht_pc,         \* "input" -> "forward" -> "inverse"
    wht_x,          \* the input vector x
    wht_y,          \* WHT(x)
    wht_z           \* iWHT(WHT(x))

whtVars == <<wht_pc, wht_x, wht_y, wht_z>>

VARIABLES
    \* --- calculate's reduction of the R2 surface (SpecCalc, SpecWork)
    calc_pc,        \* "idle" | "scored" | "done"
    r2,             \* hypothesis -> sample point -> R2 value
    winning_byte    \* int(np.argmax(r2_peaks)), NoByte before

calcVars == <<calc_pc, r2, winning_byte>>

VARIABLES
    \* --- one work unit, LRA.run_workload (SpecWork); its accumulator is
    \* avtraces / counters above
    wk_pc,          \* "idle" | "stream" | "returned" | "raised"
    n_tr,           \* run_workload's n_tr
    u,              \* run_workload's u (per-sample sum)
    v,              \* run_workload's v (per-sample sum of squares)
    steps,          \* the steps of calculate that were reached, in order
    raised,         \* the exception that ended the unit, "none" otherwise
    streamed,       \* history: [n, u, v] totals over every trace streamed
    nbatches        \* number of batches streamed so far

workVars == <<wk_pc, n_tr, u, v, steps, raised, streamed, nbatches>>

VARIABLES
    \* --- LRA.run and its worker pool (SpecRun, SpecPool)
    cpu_count,       \* os.cpu_count()
    tiles,           \* container.tiles
    model_positions, \* container.model_positions
    run_pc,          \* "idle" | "start" | "pool" | "done" | "raised"
    run_raised,      \* the exception that ended run, "none" otherwise
    processes,       \* the size of the pool
    workload,        \* the tasks, in the order run appends them
    tstate,          \* task -> "queued" | "running" | "returned" | "raised"
    results,         \* task -> the key byte its run_workload returned
    aes_key,         \* self.aes_key : tile index -> bytes appended
    aes_key_pos      \* history: tile index -> the key-byte position of each byte

runVars == <<cpu_count, tiles, model_positions, run_pc, run_raised, processes,
             workload, tstate, results, aes_key, aes_key_pos>>

VARIABLES
    \* --- the accumulators of the pool's units (SpecPool)
    objects,         \* object id -> AverageTraces object, NoObject when not allocated
    unit             \* task -> the locals of its run_workload, and its own history

poolVars == <<objects, unit>>

vars == <<accVars, whtVars, calcVars, workVars, runVars, poolVars>>

\* ---------------------------------------------------------------- rationals
RECURSIVE GCD(_, _)
GCD(a, b) == IF b = 0 THEN a ELSE GCD(b, a % b)

Abs(a) == IF a < 0 THEN 0 - a ELSE a

\* n/d in lowest terms, d # 0
Norm(n, d) ==
    LET g == GCD(Abs(n), Abs(d))
        s == IF d < 0 THEN 0 - 1 ELSE 1
    IN  <<(s * n) \div g, (s * d) \div g>>

RInt(k) == <<k, 1>>
RAdd(p, q) == Norm(p[1] * q[2] + q[1] * p[2], p[2] * q[2])
RSub(p, q) == Norm(p[1] * q[2] - q[1] * p[2], p[2] * q[2])
RMul(p, q) == Norm(p[1] * q[1], p[2] * q[2])
\* p / k for an integer k # 0
RDivInt(p, k) == Norm(p[1], p[2] * k)

RTrace(t) == [i \in DOMAIN t |-> RInt(t[i])]

None == [kind |-> "None"]

\* ---------------------------------------------------------------- AverageTraces
\* AverageTraces.__init__
NewAvtraces == [d \in ByteValues |-> [i \in SampleIdx |-> RInt(0)]]
NewCounters == [d \in ByteValues |-> 0]

\* the new row avtraces[data] computed by add_trace
AddTraceRow(avt, cnt, data, trace) ==
    IF cnt[data] = 0
    THEN RTrace(trace)
    ELSE [i \in SampleIdx |->
            RAdd(avt[data][i], RDivInt(RSub(RInt(trace[i]), avt[data][i]), cnt[data]))]

add_trace_avtraces(avt, cnt, data, trace) ==
    [avt EXCEPT ![data] = AddTraceRow(avt, cnt, data, trace)]

add_trace_counters(cnt, data) == [cnt EXCEPT ![data] = cnt[data] + 1]

\* np.flatnonzero(counters): the indices of the non-zero entries, ascending
RECURSIVE FlatNonzeroFrom(_, _)
FlatNonzeroFrom(cnt, i) ==
    IF i >= NumValues THEN <<>>
    ELSE IF cnt[i] # 0 THEN <<i>> \o FlatNonzeroFrom(cnt, i + 1)
         ELSE FlatNonzeroFrom(cnt, i + 1)

\* a scan that keeps every index (zero-filling the unobserved byte values)
FlatNonzero_all(cnt) == [k \in 1..NumValues |-> k - 1]

FlatNonzero(cnt) == FlatNonzeroFrom(cnt, 0)

\* AverageTraces.get_data
get_data(avt, cnt) ==
    LET avdata_snap == FlatNonzero(cnt)
        avtraces_snap == [k \in DOMAIN avdata_snap |-> avt[avdata_snap[k]]]
    IN  [kind |-> "data", avdata_snap |-> avdata_snap, avtraces_snap |-> avtraces_snap]

\* ---------------------------------------------------------------- WHT / iWHT
\* vector lengths are 2^0 .. 2^MaxLog
MaxLog == 2
\* entries of an input vector are integers 0..MaxEntry
MaxEntry == 2

RECURSIVE Pow2(_)
Pow2(k) == IF k = 0 THEN 1 ELSE 2 * Pow2(k - 1)

RECURSIVE IsPow2(_)
IsPow2(n) == IF n <= 1 THEN n = 1 ELSE n % 2 = 0 /\ IsPow2(n \div 2)

\* scipy.linalg.hadamard(n)[i][j], 0-based, by Sylvester's construction
\* H(2m) = [[H(m), H(m)], [H(m), -H(m)]]; n is a power of two
RECURSIVE hadamard(_, _, _)
hadamard(n, i, j) ==
    IF n = 1 THEN 1
    ELSE LET m == n \div 2
             s == IF i >= m /\ j >= m THEN 0 - 1 ELSE 1
         IN  s * hadamard(m, i % m, j % m)

\* sum of the rationals f[1..k]
RECURSIVE RSum(_, _)
RSum(f, k) == IF k = 0 THEN RInt(0) ELSE RAdd(RSum(f, k - 1), f[k])

\* H @ x for a vector x of rationals of length n
HadamardMatVec(x) ==
    LET n == Len(x)
    IN  [i \in 1..n |->
            RSum([j \in 1..n |-> RMul(RInt(hadamard(n, i - 1, j - 1)), x[j])], n)]

\* a forward transform that forgets the 1/n normalisation
WHT_unnormalised(x) == HadamardMatVec(x)

WHT(x) ==
    LET n == Len(x)
        Hx == HadamardMatVec(x)
    IN  [i \in 1..n |-> RDivInt(Hx[i], n)]

iWHT(x) == HadamardMatVec(x)

\* ---------------------------------------------------------------- calculate
\* number of key-byte hypotheses (range(256) in lra), scaled down
NumHyp == 2
\* R2 values are the integers 0..MaxR2, and NaN
MaxR2 == 1
\* number of sample points of the R2 surfaces that SpecCalc draws
CalcCols == 2

Hypotheses == 0..(NumHyp - 1)
NaN == 0 - 1
R2Values == 0..MaxR2 \cup {NaN}
NoByte == 0 - 1

\* np.maximum of two values: NaN propagates
NpMaximum(a, b) == IF a = NaN \/ b = NaN THEN NaN ELSE IF b > a THEN b ELSE a

\* np.max of a row over its sample points
RECURSIVE NpMaxFrom(_, _, _)
NpMaxFrom(row, i, m) ==
    IF i > Len(row) THEN m ELSE NpMaxFrom(row, i + 1, NpMaximum(m, row[i]))

NpMax(row) == NpMaxFrom(row, 2, row[1])

\* np.argmax of p[0..n-1]: the scan keeps the first maximum and stops at the
\* first NaN
RECURSIVE NpArgmaxFrom(_, _, _, _)
NpArgmaxFrom(p, n, i, best) ==
    IF i >= n \/ p[best] = NaN THEN best
    ELSE IF p[i] = NaN \/ p[i] > p[best]
         THEN NpArgmaxFrom(p, n, i + 1, i)
         ELSE NpArgmaxFrom(p, n, i + 1, best)

\* a scan that keeps the last maximum
RECURSIVE NpArgmaxLastFrom(_, _, _, _)
NpArgmaxLastFrom(p, n, i, best) ==
    IF i >= n THEN best
    ELSE IF p[i] >= p[best]
         THEN NpArgmaxLastFrom(p, n, i + 1, i)
         ELSE NpArgmaxLastFrom(p, n, i + 1, best)

NpArgmax_last(p, n) == NpArgmaxLastFrom(p, n, 1, 0)

NpArgmax(p, n) == NpArgmaxFrom(p, n, 1, 0)

\* calculate, after lra returned: r2_peaks and winning_byte
r2_peaks(surface) == [h \in Hypotheses |-> NpMax(surface[h])]
calculate_winning_byte(surface) == NpArgmax(r2_peaks(surface), NumHyp)

Surfaces(cols) == [Hypotheses -> [1..cols -> R2Values]]

\* ---------------------------------------------------------------- lra
\* bit width of the regression model (wrapper(8) in lra), scaled down
BitWidth == 1

\* self.sbox
sbox == <<
    99, 124, 119, 123, 242, 107, 111, 197, 48, 1, 103, 43, 254, 215, 171, 118,
    202, 130, 201, 125, 250, 89, 71, 240, 173, 212, 162, 175, 156, 164, 114, 192,
    183, 253, 147, 38, 54, 63, 247, 204, 52, 165, 229, 241, 113, 216, 49, 21,
    4, 199, 35, 195, 24, 150, 5, 154, 7, 18, 128, 226, 235, 39, 178, 117,
    9, 131, 44, 26, 27, 110, 90, 160, 82, 59, 214, 179, 41, 227, 47, 132,
    83, 209, 0, 237, 32, 252, 177, 91, 106, 203, 190, 57, 74, 76, 88, 207,
    208, 239, 170, 251, 67, 77, 51, 133, 69, 249, 2, 127, 80, 60, 159, 168,
    81, 163, 64, 143, 146, 157, 56, 245, 188, 182, 218, 33, 16, 255, 243, 210,
    205, 12, 19, 236, 95, 151, 68, 23, 196, 167, 126, 61, 100, 93, 25, 115,
    96, 129, 79, 220, 34, 42, 144, 136, 70, 238, 184, 20, 222, 94, 11, 219,
    224, 50, 58, 10, 73, 6, 36, 92, 194, 211, 172, 98, 145, 149, 228, 121,
    231, 200, 55, 109, 141, 213, 78, 169, 108, 86, 244, 234, 101, 122, 174, 8,
    186, 120, 37, 46, 28, 166, 180, 198, 232, 221, 116, 31, 75, 189, 139, 138,
    112, 62, 181, 102, 72, 3, 246, 14, 97, 53, 87, 185, 134, 193, 29, 158,
    225, 248, 152, 17, 105, 217, 142, 148, 155, 30, 135, 233, 206, 85, 40, 223,
    140, 161, 137, 13, 191, 230, 66, 104, 65, 153, 45, 15, 176, 84, 187, 22
>>

\* x ^ y on naturals
RECURSIVE BitXor(_, _)
BitXor(x, y) ==
    IF x = 0 /\ y = 0 THEN 0
    ELSE (((x % 2) + (y % 2)) % 2) + 2 * BitXor(x \div 2, y \div 2)

s_box_out(data, key_byte) == sbox[BitXor(data, key_byte) + 1]

\* the bits of x, least significant first, then the constant 1
model_single_bits(x, bit_width) ==
    [i \in 1..(bit_width + 1) |->
        IF i <= bit_width THEN (x \div Pow2(i - 1)) % 2 ELSE 1]

\* M0: one model row per observed byte value
ModelMatrix(data) ==
    [k \in DOMAIN data |-> model_single_bits(s_box_out(data[k], 0), BitWidth)]

\* the sequence m without its k-th element
Without(m, k) == [i \in 1..(Len(m) - 1) |-> IF i < k THEN m[i] ELSE m[i + 1]]

RECURSIVE Det(_)
RECURSIVE DetSum(_, _)
\* the cofactor expansion of Det(m) along the first row, columns 1..j
DetSum(m, j) ==
    IF j = 0 THEN 0
    ELSE DetSum(m, j - 1)
         + (IF (j % 2) = 1 THEN 1 ELSE 0 - 1) * m[1][j]
           * Det([i \in 1..(Len(m) - 1) |-> Without(m[i + 1], j)])
Det(m) == IF Len(m) = 1 THEN m[1][1] ELSE DetSum(m, Len(m))

RECURSIVE SetToSeq(_)
SetToSeq(S) ==
    IF S = {} THEN <<>>
    ELSE LET x == CHOOSE y \in S : \A z \in S : y <= z
         IN  <<x>> \o SetToSeq(S \ {x})

\* M0.T @ M0 is positive definite exactly when the columns of M0 are
\* independent: some BitWidth+1 rows of M0 have a non-zero determinant
PositiveDefinite(M0) ==
    \E S \in SUBSET (DOMAIN M0) :
        /\ Cardinality(S) = BitWidth + 1
        /\ Det([k \in 1..(BitWidth + 1) |-> M0[SetToSeq(S)[k]]]) # 0

\* how lra can end for the observed byte values data: "none" when it returns
\* R2, the exception otherwise.  np.linalg.cholesky rejects the 0-d product of
\* an empty M0; on a singular product, rounding decides whether it raises or
\* returns a factor.
LraOutcomes(data) ==
    LET num_traces == Len(data)
        M0 == ModelMatrix(data)
        after_cholesky ==
            IF ~IsPow2(num_traces) THEN "ValueError"       \* hadamard(n) in WHT
            ELSE IF num_traces < NumHyp THEN "IndexError"  \* U0_iwht[:-1, key_byte]
            ELSE "none"
    IN  IF num_traces = 0 THEN {"LinAlgError"}
        ELSE IF PositiveDefinite(M0) THEN {after_cholesky}
        ELSE {"LinAlgError", after_cholesky}

\* ---------------------------------------------------------------- LRA.update
\* a batch is a sequence of <<plaintext byte, trace>> rows
MaxBatch == 2
\* number of batches a unit's stream yields at most
MaxBatches == 2

Batches == UNION {[1..k -> ByteValues \X Traces] : k \in 0..MaxBatch}

\* update: the loop over the rows of the batch from row i on; st holds the
\* accumulator, the local n_tr, and the arrays u and v it adds to in place
RECURSIVE update_from(_, _, _)
update_from(batch, i, st) ==
    IF i > Len(batch) THEN st
    ELSE LET g == batch[i][1]
             t == batch[i][2]
         IN  update_from(batch, i + 1,
                [avt |-> add_trace_avtraces(st.avt, st.cnt, g, t),
                 cnt |-> add_trace_counters(st.cnt, g),
                 u |-> [k \in SampleIdx |-> st.u[k] + t[k]],
                 v |-> [k \in SampleIdx |-> st.v[k] + t[k] * t[k]],
                 n_tr |-> st.n_tr + 1])

\* what update returns; u and v are the caller's own arrays
update(batch, avt, cnt, n, vv, uu) ==
    update_from(batch, 1, [avt |-> avt, cnt |-> cnt, u |-> uu, v |-> vv, n_tr |-> n])

\* ---------------------------------------------------------------- idle parts
ZeroTrace == [i \in SampleIdx |-> 0]

AccIdle ==
    /\ avtraces = NewAvtraces
    /\ counters = NewCounters
    /\ ret = None
    /\ fed = [d \in ByteValues |-> [n |-> 0, sum |-> ZeroTrace]]
    /\ ncalls = 0

WhtIdle ==
    /\ wht_pc = "idle"
    /\ wht_x = <<>>
    /\ wht_y = <<>>
    /\ wht_z = <<>>

CalcIdle ==
    /\ calc_pc = "idle"
    /\ r2 = <<>>
    /\ winning_byte = NoByte

WorkIdle ==
    /\ wk_pc = "idle"
    /\ n_tr = 0
    /\ u = ZeroTrace
    /\ v = ZeroTrace
    /\ steps = <<>>
    /\ raised = "none"
    /\ streamed = [n |-> 0, u |-> ZeroTrace, v |-> ZeroTrace]
    /\ nbatches = 0

RunIdle ==
    /\ cpu_count = 0
    /\ tiles = <<>>
    /\ model_positions = <<>>
    /\ run_pc = "idle"
    /\ run_raised = "none"
    /\ processes = 0
    /\ workload = <<>>
    /\ tstate = <<>>
    /\ results = <<>>
    /\ aes_key = <<>>
    /\ aes_key_pos = <<>>

PoolIdle ==
    /\ objects = <<>>
    /\ unit = <<>>

\* ---------------------------------------------------------------- SpecAcc
AccInit == AccIdle /\ WhtIdle /\ CalcIdle /\ WorkIdle /\ RunIdle /\ PoolIdle

AddTrace ==
    /\ ncalls < MaxCalls
    /\ \E data \in ByteValues, trace \in Traces :
        /\ avtraces' = add_trace_avtraces(avtraces, counters, data, trace)
        /\ counters' = add_trace_counters(counters, data)
        /\ fed' = [fed EXCEPT ![data] =
                     [n |-> @.n + 1, sum |-> [i \in SampleIdx |-> @.sum[i] + trace[i]]]]
    /\ ret' = None
    /\ ncalls' = ncalls + 1
    /\ UNCHANGED <<whtVars, calcVars, workVars, runVars, poolVars>>

GetData ==
    /\ ncalls < MaxCalls
    /\ ret' = get_data(avtraces, counters)
    /\ ncalls' = ncalls + 1
    /\ UNCHANGED <<avtraces, counters, fed>>
    /\ UNCHANGED <<whtVars, calcVars, workVars, runVars, poolVars>>

AccNext == AddTrace \/ GetData

SpecAcc == AccInit /\ [][AccNext]_vars

\* C1: after the k-th add_trace for byte value v, counters[v] = k and
\* avtraces[v] is the batch mean (t1 + ... + tk) / k at every sample point.
C1_IncrementalMeanIsBatchMean ==
    \A d \in ByteValues :
        fed[d].n > 0 =>
            /\ counters[d] = fed[d].n
            /\ \A i \in SampleIdx : avtraces[d][i] = Norm(fed[d].sum[i], fed[d].n)

\* the part of C1 about the counters alone, which holds
CountersCountCalls == \A d \in ByteValues : counters[d] = fed[d].n

\* C4: get_data returns exactly the byte values whose counter is greater than
\* zero (those passed to add_trace), in ascending order, each paired with its
\* own row of avtraces; a byte value never passed to add_trace is absent.
C4_GetDataObservedAscending ==
    ret.kind = "data" =>
        LET p == ret.avdata_snap
            t == ret.avtraces_snap
        IN  /\ {p[k] : k \in DOMAIN p} = {d \in ByteValues : counters[d] > 0}
            /\ {p[k] : k \in DOMAIN p} = {d \in ByteValues : fed[d].n > 0}
            /\ \A j, k \in DOMAIN p : j < k => p[j] < p[k]
            /\ DOMAIN t = DOMAIN p
            /\ \A k \in DOMAIN p : t[k] = avtraces[p[k]]

\* get_data was called when a byte value other than 0 had been observed twice
\* and byte value 0 never
C4_Witness ==
    /\ ret.kind = "data"
    /\ ncalls = MaxCalls
    /\ fed[0].n = 0
    /\ Len(ret.avdata_snap) = 1
    /\ ret.avdata_snap[1] > 0
    /\ fed[ret.avdata_snap[1]].n = 2

\* ---------------------------------------------------------------- SpecWHT
WhtInit ==
    /\ AccIdle /\ CalcIdle /\ WorkIdle /\ RunIdle /\ PoolIdle
    /\ wht_pc = "input"
    /\ \E k \in 0..MaxLog : wht_x \in [1..Pow2(k) -> 0..MaxEntry]
    /\ wht_y = <<>>
    /\ wht_z = <<>>

Forward ==
    /\ wht_pc = "input"
    /\ wht_y' = WHT(RTrace(wht_x))
    /\ wht_pc' = "forward"
    /\ UNCHANGED <<wht_x, wht_z>>
    /\ UNCHANGED <<accVars, calcVars, workVars, runVars, poolVars>>

Inverse ==
    /\ wht_pc = "forward"
    /\ wht_z' = iWHT(wht_y)
    /\ wht_pc' = "inverse"
    /\ UNCHANGED <<wht_x, wht_y>>
    /\ UNCHANGED <<accVars, calcVars, workVars, runVars, poolVars>>

WhtNext == Forward \/ Inverse

SpecWHT == WhtInit /\ [][WhtNext]_vars

\* C7: for every vector x whose length is a power of two, iWHT(WHT(x)) = x.
C7_RoundTrip == wht_pc = "inverse" => wht_z = RTrace(wht_x)

\* a round trip of a vector of length 4 whose transform is not the vector itself
C7_Witness ==
    /\ wht_pc = "inverse"
    /\ Len(wht_x) = 4
    /\ wht_y # RTrace(wht_x)
    /\ \E i, j \in 1..4 : wht_x[i] # wht_x[j]

\* ---------------------------------------------------------------- SpecCalc
CalcInit ==
    /\ AccIdle /\ WhtIdle /\ WorkIdle /\ RunIdle /\ PoolIdle
    /\ calc_pc = "scored"
    /\ r2 \in Surfaces(CalcCols)
    /\ winning_byte = NoByte

Reduce ==
    /\ calc_pc = "scored"
    /\ winning_byte' = calculate_winning_byte(r2)
    /\ calc_pc' = "done"
    /\ UNCHANGED r2
    /\ UNCHANGED <<accVars, whtVars, workVars, runVars, poolVars>>

CalcNext == Reduce

SpecCalc == CalcInit /\ [][CalcNext]_vars

\* the peak score of hypothesis h: the largest R2 value of row h
Peak(h) ==
    LET row == r2[h]
    IN  IF \E i \in DOMAIN row : row[i] = NaN THEN NaN
        ELSE CHOOSE m \in {row[i] : i \in DOMAIN row} : \A i \in DOMAIN row : row[i] <= m

\* a is at least b; as np.max and np.argmax rank them, NaN is above every number
AtLeast(a, b) == a = NaN \/ (b # NaN /\ a >= b)

\* C5: calculate returns the hypothesis whose peak score is the largest among
\* all hypotheses, and the lowest such hypothesis when several share it.
C5_FirstLargestPeak ==
    calc_pc = "done" =>
        /\ winning_byte \in Hypotheses
        /\ \A h \in Hypotheses : AtLeast(Peak(winning_byte), Peak(h))
        /\ \A h \in Hypotheses : h < winning_byte => ~AtLeast(Peak(h), Peak(winning_byte))

\* two hypotheses share the largest peak, a number reached at different sample
\* points, and the lower hypothesis is returned
C5_Witness ==
    /\ calc_pc = "done"
    /\ wk_pc = "idle"
    /\ \E h \in Hypotheses :
        /\ h > winning_byte
        /\ Peak(h) = Peak(winning_byte)
        /\ r2[h] # r2[winning_byte]
    /\ Peak(winning_byte) # NaN
    /\ Peak(winning_byte) > 0

\* ---------------------------------------------------------------- SpecWork
WorkInit ==
    /\ AccIdle /\ WhtIdle /\ CalcIdle /\ RunIdle /\ PoolIdle
    /\ wk_pc = "stream"
    /\ n_tr = 0
    /\ u = ZeroTrace
    /\ v = ZeroTrace
    /\ steps = <<>>
    /\ raised = "none"
    /\ streamed = [n |-> 0, u |-> ZeroTrace, v |-> ZeroTrace]
    /\ nbatches = 0

RECURSIVE BatchSum(_, _, _)
\* the sum over the rows of the batch of sample k (squared when sq)
BatchSum(batch, k, sq) ==
    IF batch = <<>> THEN 0
    ELSE LET x == batch[Len(batch)][2][k]
         IN  BatchSum(SubSeq(batch, 1, Len(batch) - 1), k, sq) + (IF sq THEN x * x ELSE x)

\* one iteration of run_workload's loop: update, then the three += on what it
\* returned; tmp_v and tmp_u are the arrays v and u themselves
NextBatch ==
    /\ wk_pc = "stream"
    /\ nbatches < MaxBatches
    /\ \E batch \in Batches :
        LET r == update(batch, avtraces, counters, n_tr, v, u)
        IN  /\ avtraces' = r.avt
            /\ counters' = r.cnt
            /\ v' = [k \in SampleIdx |-> r.v[k] + r.v[k]]
            /\ u' = [k \in SampleIdx |-> r.u[k] + r.u[k]]
            /\ n_tr' = n_tr + r.n_tr
            /\ streamed' = [n |-> streamed.n + Len(batch),
                            u |-> [k \in SampleIdx |-> streamed.u[k] + BatchSum(batch, k, FALSE)],
                            v |-> [k \in SampleIdx |-> streamed.v[k] + BatchSum(batch, k, TRUE)]]
    /\ nbatches' = nbatches + 1
    /\ UNCHANGED <<ret, fed, ncalls, wk_pc, steps, raised>>
    /\ UNCHANGED <<whtVars, calcVars, runVars, poolVars>>

\* the stream is exhausted: calculate, then return
Calculate ==
    /\ wk_pc = "stream"
    /\ LET d == get_data(avtraces, counters)
       IN  /\ ret' = d
           /\ \E e \in LraOutcomes(d.avdata_snap) :
                /\ raised' = e
                /\ IF e = "none"
                   THEN /\ \E surface \in Surfaces(TraceLen) :
                            /\ r2' = surface
                            /\ winning_byte' = calculate_winning_byte(surface)
                        /\ steps' = <<"get_data", "sst", "lra", "max", "argmax">>
                        /\ calc_pc' = "done"
                        /\ wk_pc' = "returned"
                   ELSE /\ steps' = <<"get_data", "sst", "lra">>
                        /\ wk_pc' = "raised"
                        /\ UNCHANGED calcVars
    /\ UNCHANGED <<avtraces, counters, fed, ncalls, n_tr, u, v, streamed, nbatches>>
    /\ UNCHANGED <<whtVars, runVars, poolVars>>

WorkNext == NextBatch \/ Calculate

SpecWork == WorkInit /\ [][WorkNext]_vars

Finished == wk_pc \in {"returned", "raised"}

\* C2: after the stream is exhausted, the variance accumulator passed to
\* calculate holds the totals over all streamed traces: n_tr their number, u
\* their per-sample sum, v their per-sample sum of squares.
C2_VarianceTotals ==
    Finished => n_tr = streamed.n /\ u = streamed.u /\ v = streamed.v

\* C6: a unit whose stream held zero observations detects it before scoring:
\* neither the sst division by n_tr nor the scorer is reached.
C6_EmptyStreamDetected ==
    (Finished /\ streamed.n = 0) =>
        \A k \in DOMAIN steps : steps[k] \notin {"sst", "lra"}

\* C9: for any non-empty set of observed byte values, also fewer than all of
\* them, the scorer returns an R2 surface of NumHyp rows and one column per
\* sample point, and no step indexes beyond the observed values.
C9_SizedToObserved ==
    (Finished /\ ret.kind = "data" /\ Len(ret.avdata_snap) > 0) =>
        /\ raised = "none"
        /\ DOMAIN r2 = Hypotheses
        /\ \A h \in Hypotheses : DOMAIN r2[h] = SampleIdx

\* a unit that observed every byte value returns a winning byte
WorkReturns == wk_pc = "returned" /\ winning_byte \in Hypotheses

\* ---------------------------------------------------------------- LRA.run
\* os.cpu_count() is 1..MaxCpus
MaxCpus == 4
\* container.tiles holds 1..MaxTiles tiles
MaxTiles == 2
\* key-byte positions are 0..MaxPos
MaxPos == 1

\* the lists without repetition over S
InjectiveSeqs(S) ==
    UNION {{s \in [1..k -> S] : \A i, j \in 1..k : i # j => s[i] # s[j]} :
             k \in 1..Cardinality(S)}

\* list.index: the first index of x in s
IndexOf(s, x) == CHOOSE i \in DOMAIN s : s[i] = x /\ \A j \in 1..(i - 1) : s[j] # x

\* the id of the object run creates for the k-th entry (0-based) of
\* self.average_traces, in the parent process
ParentObject(k) == <<0, k>>

\* the workload list of run: for tile in tiles, for model_pos in model_positions
Workload(ts, ps) ==
    [i \in 1..(Len(ts) * Len(ps)) |->
        LET tile == ts[((i - 1) \div Len(ps)) + 1]
            model_pos == ps[((i - 1) % Len(ps)) + 1]
        IN  [tile |-> tile, model_pos |-> model_pos,
             average_traces |-> ParentObject(model_pos)]]

NoObject == [kind |-> "None"]
NewObject == [kind |-> "AverageTraces", avtraces |-> NewAvtraces, counters |-> NewCounters]

\* the locals of a run_workload that has not started
NewUnit ==
    [average_traces |-> <<0, 0>>, n_tr |-> 0, u |-> ZeroTrace, v |-> ZeroTrace,
     own |-> NewObject, nbatches |-> 0, alone |-> TRUE]

\* run up to the starmap call: the accumulators, the key lists, the pool and the
\* workload.  Pool(processes=0) raises ValueError; self.average_traces[model_pos]
\* raises IndexError for a position beyond the length of the list.
RunSetup ==
    /\ run_pc = "start"
    /\ LET p == cpu_count \div 2
           n == Len(tiles) * Len(model_positions)
       IN  /\ processes' = p
           /\ aes_key' = [t \in DOMAIN tiles |-> <<>>]
           /\ aes_key_pos' = [t \in DOMAIN tiles |-> <<>>]
           /\ objects' = [id \in (0..n) \X (0..MaxPos) |->
                            IF id[1] = 0 /\ id[2] < Len(model_positions)
                            THEN NewObject ELSE NoObject]
           /\ IF p < 1
              THEN /\ run_pc' = "raised"
                   /\ run_raised' = "ValueError"
                   /\ UNCHANGED <<workload, tstate, results, unit>>
              ELSE IF \E k \in DOMAIN model_positions :
                        model_positions[k] >= Len(model_positions)
              THEN /\ run_pc' = "raised"
                   /\ run_raised' = "IndexError"
                   /\ UNCHANGED <<workload, tstate, results, unit>>
              ELSE /\ run_pc' = "pool"
                   /\ run_raised' = "none"
                   /\ workload' = Workload(tiles, model_positions)
                   /\ tstate' = [i \in 1..n |-> "queued"]
                   /\ results' = [i \in 1..n |-> NoByte]
                   /\ unit' = [i \in 1..n |-> NewUnit]
    /\ UNCHANGED <<cpu_count, tiles, model_positions>>
    /\ UNCHANGED <<accVars, whtVars, calcVars, workVars>>

\* a free worker takes the next task of the queue
CanStart(i) ==
    /\ run_pc = "pool"
    /\ tstate[i] = "queued"
    /\ \A j \in 1..(i - 1) : tstate[j] # "queued"
    /\ Cardinality({j \in DOMAIN tstate : tstate[j] = "running"}) < processes

\* ---------------------------------------------------------------- SpecRun
RunInit ==
    /\ AccIdle /\ WhtIdle /\ CalcIdle /\ WorkIdle /\ PoolIdle
    /\ cpu_count \in 1..MaxCpus
    /\ \E n \in 1..MaxTiles : tiles = [i \in 1..n |-> i]
    /\ model_positions \in InjectiveSeqs(0..MaxPos)
    /\ run_pc = "start"
    /\ run_raised = "none"
    /\ processes = 0
    /\ workload = <<>>
    /\ tstate = <<>>
    /\ results = <<>>
    /\ aes_key = <<>>
    /\ aes_key_pos = <<>>

TaskStart(i) ==
    /\ CanStart(i)
    /\ tstate' = [tstate EXCEPT ![i] = "running"]
    /\ UNCHANGED <<cpu_count, tiles, model_positions, run_pc, run_raised, processes,
                   workload, results, aes_key, aes_key_pos>>
    /\ UNCHANGED <<accVars, whtVars, calcVars, workVars, poolVars>>

\* run_workload returns (tile_x, tile_y, model_pos, key_byte)
TaskReturn(i) ==
    /\ run_pc = "pool"
    /\ tstate[i] = "running"
    /\ \E key_byte \in Hypotheses : results' = [results EXCEPT ![i] = key_byte]
    /\ tstate' = [tstate EXCEPT ![i] = "returned"]
    /\ UNCHANGED <<cpu_count, tiles, model_positions, run_pc, run_raised, processes,
                   workload, aes_key, aes_key_pos>>
    /\ UNCHANGED <<accVars, whtVars, calcVars, workVars, poolVars>>

\* run_workload raises
TaskRaise(i) ==
    /\ run_pc = "pool"
    /\ tstate[i] = "running"
    /\ tstate' = [tstate EXCEPT ![i] = "raised"]
    /\ UNCHANGED <<cpu_count, tiles, model_positions, run_pc, run_raised, processes,
                   workload, results, aes_key, aes_key_pos>>
    /\ UNCHANGED <<accVars, whtVars, calcVars, workVars, poolVars>>

\* the loop over starmap_results, from result i on
RECURSIVE Assemble(_, _, _)
Assemble(i, key, sel) ==
    IF i > Len(workload) THEN key
    ELSE LET tile_index == IndexOf(tiles, workload[i].tile)
             x == IF sel = "byte" THEN results[i] ELSE workload[i].model_pos
         IN  Assemble(i + 1, [key EXCEPT ![tile_index] = Append(@, x)], sel)

\* starmap returns once every task has ended, and raises if one raised; then
\* the key bytes are appended in the order of the results
Collect ==
    /\ run_pc = "pool"
    /\ \A i \in DOMAIN tstate : tstate[i] \in {"returned", "raised"}
    /\ IF \E i \in DOMAIN tstate : tstate[i] = "raised"
       THEN /\ run_pc' = "raised"
            /\ run_raised' = "WorkerError"
            /\ UNCHANGED <<aes_key, aes_key_pos>>
       ELSE /\ run_pc' = "done"
            /\ aes_key' = Assemble(1, aes_key, "byte")
            /\ aes_key_pos' = Assemble(1, aes_key_pos, "pos")
            /\ UNCHANGED run_raised
    /\ UNCHANGED <<cpu_count, tiles, model_positions, processes, workload, tstate, results>>
    /\ UNCHANGED <<accVars, whtVars, calcVars, workVars, poolVars>>

RunNext ==
    \/ RunSetup
    \/ \E i \in DOMAIN tstate : TaskStart(i)
    \/ \E i \in DOMAIN tstate : TaskReturn(i)
    \/ \E i \in DOMAIN tstate : TaskRaise(i)
    \/ Collect

SpecRun == RunInit /\ [][RunNext]_vars

\* C3: after run completes, the recovered key of each tile holds exactly one
\* winning byte per (tile, position) unit of that tile, and the bytes are
\* ordered by key-byte position within the tile.
C3_KeyOrderedByPosition ==
    run_pc = "done" =>
        \A t \in DOMAIN tiles :
            /\ Len(aes_key[t]) = Len(model_positions)
            /\ {aes_key_pos[t][k] : k \in DOMAIN aes_key_pos[t]}
                 = {model_positions[k] : k \in DOMAIN model_positions}
            /\ \A j, k \in DOMAIN aes_key_pos[t] :
                 j < k => aes_key_pos[t][j] < aes_key_pos[t][k]

\* the part of C3 that holds: one byte per unit, in the iteration order of
\* model_positions
KeyInIterationOrder ==
    run_pc = "done" =>
        \A t \in DOMAIN tiles :
            /\ aes_key_pos[t] = model_positions
            /\ \A k \in DOMAIN model_positions :
                 aes_key[t][k] = results[(t - 1) * Len(model_positions) + k]

\* C10: for every number of processing units c >= 1 the pool has at least one
\* worker, so run gets past the creation of the pool
C10_PoolHasWorker ==
    (cpu_count >= 1 /\ run_pc # "start") => (processes >= 1 /\ run_raised # "ValueError")

\* a run over two tiles and two positions completes
RunCompletes == run_pc = "done" /\ Len(tiles) = 2 /\ Len(model_positions) = 2

\* ---------------------------------------------------------------- SpecPool
\* the rows the units of SpecPool stream, one row per batch
PoolBatches ==
    {<< <<0, ZeroTrace>> >>, << <<NumValues - 1, [i \in SampleIdx |-> MaxSample]>> >>}

\* a task argument handed over by reference, as to a thread of the parent
task_argument_shared(i, obj) == obj

\* starmap with chunksize=1 pickles the arguments of each task on their own: in
\* the worker, task i works on the copy of the parent's object obj that was
\* unpickled for it
task_argument(i, obj) == <<i, obj[2]>>

\* a worker takes task i and unpickles its arguments
UnitStart(i) ==
    /\ CanStart(i)
    /\ tstate' = [tstate EXCEPT ![i] = "running"]
    /\ LET id == task_argument(i, workload[i].average_traces)
       IN  /\ objects' = [objects EXCEPT ![id] = objects[workload[i].average_traces]]
           /\ unit' = [unit EXCEPT ![i].average_traces = id]
    /\ UNCHANGED <<cpu_count, tiles, model_positions, run_pc, run_raised, processes,
                   workload, results, aes_key, aes_key_pos>>
    /\ UNCHANGED <<accVars, whtVars, calcVars, workVars>>

\* one iteration of the loop of run_workload in task i
UnitBatch(i) ==
    /\ run_pc = "pool"
    /\ tstate[i] = "running"
    /\ unit[i].nbatches < MaxBatches
    /\ \E batch \in PoolBatches :
        LET me == unit[i]
            obj == objects[me.average_traces]
            r == update(batch, obj.avtraces, obj.counters, me.n_tr, me.v, me.u)
            mine == update(batch, me.own.avtraces, me.own.counters, 0, ZeroTrace, ZeroTrace)
        IN  /\ objects' = [objects EXCEPT ![me.average_traces] =
                             [kind |-> "AverageTraces", avtraces |-> r.avt, counters |-> r.cnt]]
            /\ unit' = [unit EXCEPT ![i] =
                          [me EXCEPT !.v = [k \in SampleIdx |-> r.v[k] + r.v[k]],
                                     !.u = [k \in SampleIdx |-> r.u[k] + r.u[k]],
                                     !.n_tr = me.n_tr + r.n_tr,
                                     !.nbatches = me.nbatches + 1,
                                     !.own = [kind |-> "AverageTraces",
                                              avtraces |-> mine.avt, counters |-> mine.cnt]]]
    /\ UNCHANGED runVars
    /\ UNCHANGED <<accVars, whtVars, calcVars, workVars>>

\* the stream of task i is exhausted: calculate on its accumulator, then the
\* task ends and the worker drops the arguments it unpickled
UnitCalculate(i) ==
    /\ run_pc = "pool"
    /\ tstate[i] = "running"
    /\ LET me == unit[i]
           obj == objects[me.average_traces]
           d == get_data(obj.avtraces, obj.counters)
       IN  /\ \E e \in LraOutcomes(d.avdata_snap) :
                tstate' = [tstate EXCEPT ![i] = IF e = "none" THEN "returned" ELSE "raised"]
           /\ unit' = [unit EXCEPT ![i] = [NewUnit EXCEPT !.alone = (obj = me.own)]]
           /\ objects' = IF me.average_traces[1] = 0 THEN objects
                         ELSE [objects EXCEPT ![me.average_traces] = NoObject]
    /\ UNCHANGED <<cpu_count, tiles, model_positions, run_pc, run_raised, processes,
                   workload, results, aes_key, aes_key_pos>>
    /\ UNCHANGED <<accVars, whtVars, calcVars, workVars>>

PoolNext ==
    \/ RunSetup
    \/ \E i \in DOMAIN tstate : UnitStart(i)
    \/ \E i \in DOMAIN tstate : UnitBatch(i)
    \/ \E i \in DOMAIN tstate : UnitCalculate(i)

SpecPool == RunInit /\ [][PoolNext]_vars

\* C8: whatever the interleaving of the units in the pool, the accumulator a
\* unit works on, and passes to calculate, holds the observations of the unit's
\* own stream and no others, although run hands the same AverageTraces object
\* to the units of every tile for a key-byte position.  (n_tr, u and v are
\* locals of run_workload.)
C8_UnitsShareNoState ==
    \A i \in DOMAIN unit :
        /\ unit[i].alone
        /\ tstate[i] = "running" => objects[unit[i].average_traces] = unit[i].own

\* two units of different tiles and the same key-byte position, which run was
\* handed the same object, have both streamed a batch and are both running
C8_Witness ==
    \E i, j \in DOMAIN unit :
        /\ i # j
        /\ workload[i].average_traces = workload[j].average_traces
        /\ workload[i].tile # workload[j].tile
        /\ tstate[i] = "running" /\ unit[i].nbatches >= 1
        /\ tstate[j] = "running" /\ unit[j].nbatches >= 1

\* the parent's accumulators are never written
ParentObjectsStayEmpty ==
    \A id \in DOMAIN objects : id[1] = 0 => objects[id] \in {NoObject, NewObject}

Spec == SpecAcc
====
